---------------------------- MODULE Spec2Model ----------------------------
(***************************************************************************)
(* Focus-mode assistant: focus-session lifecycle (start / end / getActive  *)
(* over the focus_sessions and held_items tables), the urgency classifier  *)
(* with its keyword fallback, and the message-triage pipeline.             *)
(*                                                                         *)
(* Every store call a handler awaits is one atomic step; the synchronous   *)
(* code around it is part of that step, and so is the `now` a query is     *)
(* stamped with.  The oracle call reads nothing shared and the             *)
(* notification_log insert is read by nobody, so each is taken together    *)
(* with the store call next to it; the log row and the DM appear in `out`, *)
(* the output of the step that sends them.  Handlers of different requests *)
(* interleave at these steps, and the clock may advance between them.      *)
(***************************************************************************)
EXTENDS Integers, Sequences, FiniteSets, Bags, TLC

VARIABLES
    now,               \* wall clock, milliseconds
    api_key,           \* process.env.ANTHROPIC_API_KEY is set
    focus_sessions,    \* table focus_sessions; a row's id is its index
    held_items,        \* table held_items; a row's id is its index
    summarized,        \* per held_items row: how often sendBatchSummary was handed it
    inflight,          \* the request handlers in flight: a bag of their local states
    out,               \* what the step just taken returned or responded
    call               \* one call of a pure function: its input and result

vars == <<now, api_key, focus_sessions, held_items, summarized, inflight, out, call>>

-----------------------------------------------------------------------------
(* Strings are sequences of one-character strings.                         *)

UpperChars == <<"A","B","C","D","E","F","G","H","I","J","K","L","M",
                "N","O","P","Q","R","S","T","U","V","W","X","Y","Z">>

LowerChars == <<"a","b","c","d","e","f","g","h","i","j","k","l","m",
                "n","o","p","q","r","s","t","u","v","w","x","y","z">>

DigitChars == <<"0","1","2","3","4","5","6","7","8","9">>

\* String.prototype.toLowerCase, one character
LowerChar(c) ==
    IF \E i \in 1..Len(UpperChars) : UpperChars[i] = c
    THEN LowerChars[CHOOSE i \in 1..Len(UpperChars) : UpperChars[i] = c]
    ELSE c

\* String.prototype.toLowerCase
toLowerCase(s) == [i \in 1..Len(s) |-> LowerChar(s[i])]

\* String.prototype.includes
includes(s, k) == \E i \in 0..(Len(s) - Len(k)) : SubSeq(s, i + 1, i + Len(k)) = k

IsDigit(c) == \E i \in 1..Len(DigitChars) : DigitChars[i] = c

DigitVal(c) == (CHOOSE i \in 1..Len(DigitChars) : DigitChars[i] = c) - 1

\* parseInt(s, 10) of a non-empty string of decimal digits
RECURSIVE parseInt(_)
parseInt(s) ==
    IF Len(s) = 0 THEN 0
    ELSE parseInt(SubSeq(s, 1, Len(s) - 1)) * 10 + DigitVal(s[Len(s)])

AllDigits(s) == Len(s) > 0 /\ \A i \in 1..Len(s) : IsDigit(s[i])

-----------------------------------------------------------------------------
(* Urgency classifier                                                      *)

urgentKeywords ==
    { <<"u","r","g","e","n","t">>,
      <<"e","m","e","r","g","e","n","c","y">>,
      <<"a","s","a","p">>,
      <<"d","o","w","n">>,
      <<"o","u","t","a","g","e">>,
      <<"c","r","i","t","i","c","a","l">>,
      <<"i","m","m","e","d","i","a","t","e","l","y">>,
      <<"9","1","1">>,
      <<"h","e","l","p"," ","n","o","w">> }

\* the scan without toLowerCase
hasUrgentKeyword_caseSensitive(messageText) ==
    \E keyword \in urgentKeywords : includes(messageText, keyword)

hasUrgentKeyword(messageText) ==
    \E keyword \in urgentKeywords : includes(toLowerCase(messageText), keyword)

\* What `anthropic.messages.create` followed by JSON.parse can produce.
\*   reject         the call rejects (network error, timeout, API error)
\*   empty_content  response.content is empty: content.type raises TypeError
\*   non_text       content[0].type is not 'text'
\*   malformed      content.text is not JSON: JSON.parse raises
\*   json_null      JSON null: reading result.urgency raises TypeError
\*   json_primitive JSON number/string/boolean: assigning a property to a
\*                  primitive raises TypeError in module (strict) code
\*   object         a JSON object; urgency is its `urgency` member, or
\*                  "undefined" when the member is missing
OracleUrgencies == {"low", "medium", "high", "urgent", "URGENT", "undefined"}

OracleFailures == {"reject", "empty_content", "non_text", "malformed", "json_null", "json_primitive"}

OracleOutcomes ==
    [kind : OracleFailures, urgency : {"undefined"}, shouldInterrupt : {FALSE}]
    \cup [kind : {"object"}, urgency : OracleUrgencies, shouldInterrupt : BOOLEAN]

Result(u, r, s) == [urgency |-> u, reason |-> r, shouldInterrupt |-> s]

\* the catch block
classifyFallback(messageText) ==
    IF hasUrgentKeyword(messageText)
    THEN Result("urgent", "Contains urgent keywords (AI classification failed)", TRUE)
    ELSE Result("medium", "Default classification (AI classification failed)", FALSE)

\* the branch taken when no API key is configured
classifyNoKey(messageText) ==
    IF hasUrgentKeyword(messageText)
    THEN Result("urgent", "Contains urgent keywords", TRUE)
    ELSE Result("low", "Default classification (no AI key configured)", FALSE)

\* an exception on its way out of a function
Thrown == Result("<thrown>", "<thrown>", FALSE)

\* the try block without line 118: the oracle's own shouldInterrupt is kept
tryClassify_trustOracle(oracle) ==
    IF oracle.kind = "object"
    THEN Result(oracle.urgency, "oracle reason", oracle.shouldInterrupt)
    ELSE Thrown

\* the try block: the value it returns, or Thrown when the call, the type
\* test, JSON.parse or the property access raises
tryClassify(oracle) ==
    IF oracle.kind = "object"
    THEN Result(oracle.urgency, "oracle reason", oracle.urgency = "urgent")
    ELSE Thrown

\* classifyMessage with a catch that handles only a rejected call
classifyMessage_catchRejectOnly(messageText, configured, oracle) ==
    IF ~configured THEN classifyNoKey(messageText)
    ELSE IF oracle.kind = "reject" THEN classifyFallback(messageText)
    ELSE tryClassify(oracle)

classifyMessage(messageText, configured, oracle) ==
    IF ~configured THEN classifyNoKey(messageText)
    ELSE IF tryClassify(oracle) = Thrown THEN classifyFallback(messageText)
    ELSE tryClassify(oracle)

-----------------------------------------------------------------------------
(* Duration parser                                                         *)

NoMatch == [matched |-> FALSE, ms |-> 0]

\* the suffix (?:(\d+)m)?$ : matched flag, whether group 2 took part, its value
MinutesPart(s) ==
    IF Len(s) = 0 THEN [ok |-> TRUE, present |-> FALSE, val |-> 0]
    ELSE IF s[Len(s)] = "m" /\ AllDigits(SubSeq(s, 1, Len(s) - 1))
    THEN [ok |-> TRUE, present |-> TRUE, val |-> parseInt(SubSeq(s, 1, Len(s) - 1))]
    ELSE [ok |-> FALSE, present |-> FALSE, val |-> 0]

\* position of the "h" that ends a leading (\d+)h, or 0
HourEnd(s) ==
    IF \E i \in 2..Len(s) : s[i] = "h" /\ AllDigits(SubSeq(s, 1, i - 1))
    THEN CHOOSE i \in 2..Len(s) : s[i] = "h" /\ AllDigits(SubSeq(s, 1, i - 1))
    ELSE 0

\* parseDuration adding hours and minutes before scaling the hours
parseDuration_unscaledHours(duration) ==
    LET s == toLowerCase(duration)
        h == HourEnd(s)
        rest == MinutesPart(SubSeq(s, h + 1, Len(s)))
        hours == IF h = 0 THEN 0 ELSE parseInt(SubSeq(s, 1, h - 1))
    IN  IF ~rest.ok \/ (h = 0 /\ ~rest.present) THEN NoMatch
        ELSE [matched |-> TRUE, ms |-> (hours + rest.val) * 60 * 1000]

\* parseDuration: /^(?:(\d+)h)?(?:(\d+)m)?$/ on the lowercased string
parseDuration(duration) ==
    LET s == toLowerCase(duration)
        h == HourEnd(s)
        rest == MinutesPart(SubSeq(s, h + 1, Len(s)))
        hours == IF h = 0 THEN 0 ELSE parseInt(SubSeq(s, 1, h - 1))
    IN  IF ~rest.ok \/ (h = 0 /\ ~rest.present) THEN NoMatch
        ELSE [matched |-> TRUE, ms |-> (hours * 60 + rest.val) * 60 * 1000]

-----------------------------------------------------------------------------
(* Bounds and inputs                                                       *)

\* focus_sessions rows, counting those a handler in flight is about to insert
MaxSessions == 2

\* held_items rows, counting those the triage pipeline is about to insert
MaxHeld == 2

\* a held item is handed to sendBatchSummary any number of times; counted up to here
MaxSummarized == 2

\* handlers in flight at once
MaxInflight == 2

MaxTicks == 1

TickMs == 2 * 60 * 60 * 1000

Users == {"U1", "U2"}

\* the [duration] argument of `/focus on`; <<>> is the absent argument
DurationArgs == { <<>>, <<"9","h">>, <<"s","o","o","n">> }

\* [duration] arguments with the length in ms a reader expects of each
\* (-1: not a duration)
DurationCases ==
    { [text |-> <<>>,                         ms |-> 7200000],
      [text |-> <<"2","H">>,                  ms |-> 7200000],
      [text |-> <<"8","h">>,                  ms |-> 28800000],
      [text |-> <<"8","h","1","m">>,          ms |-> 28860000],
      [text |-> <<"4","8","1","m">>,          ms |-> 28860000],
      [text |-> <<"1","h","3","0","m">>,      ms |-> 5400000],
      [text |-> <<"0","7","m">>,              ms |-> 420000],
      [text |-> <<"0","h","0","m">>,          ms |-> 0],
      [text |-> <<"3","0","m","1","h">>,      ms |-> -1],
      [text |-> <<"2","h"," ">>,              ms |-> -1],
      [text |-> <<"h">>,                      ms |-> -1],
      [text |-> <<"1",".","5","h">>,          ms |-> -1] }

CaseTexts == { c.text : c \in DurationCases }

\* inbound chat messages
InboundMessages ==
    << [text |-> <<"l","u","n","c","h","?">>, channel_id |-> "C1", channel_name |-> "general"],
       [text |-> <<"A","S","A","P">>, channel_id |-> "C2", channel_name |-> "ops"] >>

\* oracle answers offered to the triage pipeline
TriageOutcomes ==
    { o \in OracleOutcomes :
        \/ o.kind = "reject"
        \/ o.kind = "object" /\ o.urgency = "urgent" /\ ~o.shouldInterrupt }

-----------------------------------------------------------------------------
(* Store queries                                                           *)

SessionIds == 1..Len(focus_sessions)

\* the query without .gt('ends_at', now)
ActiveRows_ignoreExpiry(userId, t) ==
    { i \in SessionIds :
        /\ focus_sessions[i].user_id = userId
        /\ focus_sessions[i].is_active }

\* the query with .gte('ends_at', now)
ActiveRows_untilEnd(userId, t) ==
    { i \in SessionIds :
        /\ focus_sessions[i].user_id = userId
        /\ focus_sessions[i].is_active
        /\ focus_sessions[i].ends_at >= t }

\* .eq('user_id', userId).eq('is_active', true).gt('ends_at', now)
ActiveRows(userId, t) ==
    { i \in SessionIds :
        /\ focus_sessions[i].user_id = userId
        /\ focus_sessions[i].is_active
        /\ focus_sessions[i].ends_at > t }

\* the query ordered by started_at ascending
MostRecent_oldest(rows) ==
    { i \in rows : \A j \in rows : focus_sessions[j].started_at >= focus_sessions[i].started_at }

\* .order('started_at', { ascending: false }).limit(1): any row of greatest started_at
MostRecent(rows) ==
    { i \in rows : \A j \in rows : focus_sessions[j].started_at <= focus_sessions[i].started_at }

\* getActiveFocusSession: the values it can return for a query stamped t;
\* 0 is null (no row, or the query failed)
getActiveFocusSession(userId, t) ==
    IF ActiveRows(userId, t) = {} THEN {0}
    ELSE MostRecent(ActiveRows(userId, t)) \cup {0}

HeldOf(sessionId) == { i \in 1..Len(held_items) : held_items[i].session_id = sessionId }

IsAscending(s) ==
    \A i \in 1..(Len(s) - 1) : held_items[s[i]].received_at <= held_items[s[i + 1]].received_at

\* .eq('session_id', id).order('received_at', { ascending: true }): every ordering
\* of the session's rows by ascending received_at
SelectHeld(sessionId) ==
    LET rows == HeldOf(sessionId)
    IN  { s \in [1..Cardinality(rows) -> rows] :
            /\ \A i, j \in 1..Cardinality(rows) : i # j => s[i] # s[j]
            /\ IsAscending(s) }

-----------------------------------------------------------------------------
(* Request handlers                                                        *)

NoResult == Result("none", "none", FALSE)

\* the local state of a handler in flight
Handler ==
    [ pc |-> "none", kind |-> "none", user |-> "none", startedAt |-> 0, endsAt |-> 0,
      session |-> 0, msg |-> 0, cls |-> NoResult ]

NoLog ==
    [ submitted |-> FALSE, user_id |-> "none", channel_id |-> "none", message |-> 0,
      urgency |-> "none", was_held |-> FALSE ]

\* nothing returned
NoOut ==
    [ op |-> "none", user |-> "none", text |-> "none", session |-> 0, heldItems |-> <<>>,
      callerItems |-> <<>>, created |-> 0, remaining |-> 0,
      msg |-> 0, cls |-> NoResult, heldRow |-> 0, log |-> NoLog ]

InFlight == BagToSet(inflight)

\* a step is taken once the previous step's output has been delivered
Delivered == out = NoOut

Accepts == Delivered /\ BagCardinality(inflight) < MaxInflight

Enter(h) == inflight (+) SetToBag({h})

Continue(h, h2) == (inflight (-) SetToBag({h})) (+) SetToBag({h2})

Finish(h) == inflight (-) SetToBag({h})

InFlightOf(kind) == BagCardinality([h \in { x \in InFlight : x.kind = kind } |-> inflight[h]])

\* the handler of a request of this kind responds
Responds(kind, userId, text) == [NoOut EXCEPT !.op = kind, !.user = userId, !.text = text]

maxDuration == 8 * 60 * 60 * 1000

\* parseDuration over the duration strings handleFocusOn is given
ParsedDuration == [d \in DurationArgs \cup CaseTexts \cup {<<"2","h">>} |-> parseDuration(d)]

Others == <<now, api_key, call>>

\* handleFocusOn answering an `on` for an active session by moving its end
handleFocusOn_extends(userId, duration) ==
    /\ Accepts
    /\ \E existingSession \in getActiveFocusSession(userId, now) :
         LET durationStr == IF duration = <<>> THEN <<"2","h">> ELSE duration
             durationMs == ParsedDuration[durationStr]
         IN  IF existingSession # 0
             THEN /\ inflight' = inflight
                  /\ focus_sessions' =
                       [focus_sessions EXCEPT ![existingSession].ends_at = now + TickMs + TickMs]
                  /\ out' = [Responds("on", userId, "already_active") EXCEPT
                               !.session = existingSession,
                               !.remaining = focus_sessions[existingSession].ends_at - now]
             ELSE /\ focus_sessions' = focus_sessions
                  /\ IF ~durationMs.matched \/ durationMs.ms = 0
                     THEN inflight' = inflight /\ out' = Responds("on", userId, "invalid_duration")
                     ELSE IF durationMs.ms > maxDuration
                     THEN inflight' = inflight /\ out' = Responds("on", userId, "too_long")
                     ELSE /\ Len(focus_sessions) + InFlightOf("on") < MaxSessions
                          /\ inflight' = Enter([Handler EXCEPT !.pc = "end_lookup", !.kind = "on",
                                                  !.user = userId, !.startedAt = now,
                                                  !.endsAt = now + durationMs.ms])
                          /\ out' = NoOut
    /\ UNCHANGED <<held_items, summarized, Others>>

\* handleFocusOn, up to the call of startFocusSession, which stamps `now` and
\* enters endFocusSession
handleFocusOn(userId, duration) ==
    /\ Accepts
    /\ \E existingSession \in getActiveFocusSession(userId, now) :
         LET durationStr == IF duration = <<>> THEN <<"2","h">> ELSE duration
             durationMs == ParsedDuration[durationStr]
         IN  IF existingSession # 0
             THEN /\ inflight' = inflight
                  /\ out' = [Responds("on", userId, "already_active") EXCEPT
                               !.session = existingSession,
                               !.remaining = focus_sessions[existingSession].ends_at - now]
             ELSE IF ~durationMs.matched \/ durationMs.ms = 0
             THEN inflight' = inflight /\ out' = Responds("on", userId, "invalid_duration")
             ELSE IF durationMs.ms > maxDuration
             THEN inflight' = inflight /\ out' = Responds("on", userId, "too_long")
             ELSE /\ Len(focus_sessions) + InFlightOf("on") < MaxSessions
                  /\ inflight' = Enter([Handler EXCEPT !.pc = "end_lookup", !.kind = "on",
                                          !.user = userId, !.startedAt = now,
                                          !.endsAt = now + durationMs.ms])
                  /\ out' = NoOut
    /\ UNCHANGED <<focus_sessions, held_items, summarized, Others>>

\* handleFocusOff, up to the call of endFocusSession
handleFocusOff(userId) ==
    /\ Accepts
    /\ \E session \in getActiveFocusSession(userId, now) :
         IF session = 0
         THEN inflight' = inflight /\ out' = Responds("off", userId, "no_session")
         ELSE /\ inflight' = Enter([Handler EXCEPT !.pc = "end_lookup", !.kind = "off",
                                      !.user = userId])
              /\ out' = NoOut
    /\ UNCHANGED <<focus_sessions, held_items, summarized, Others>>

handleFocusStatus(userId) ==
    /\ Accepts
    /\ \E session \in getActiveFocusSession(userId, now) :
         out' = IF session = 0 THEN Responds("status", userId, "no_session")
                ELSE [Responds("status", userId, "status_active") EXCEPT
                        !.session = session,
                        !.remaining = focus_sessions[session].ends_at - now]
    /\ UNCHANGED <<focus_sessions, held_items, summarized, inflight, Others>>

\* sendBatchSummary is handed heldItems
Summarize(heldItems) ==
    [i \in 1..Len(held_items) |->
        IF (\E k \in 1..Len(heldItems) : heldItems[k] = i) /\ summarized[i] < MaxSummarized
        THEN summarized[i] + 1 ELSE summarized[i]]

\* endFocusSession returns heldItems to the function that called it.
\* startFocusSession drops the value and issues its insert; handleFocusOff hands
\* it to sendBatchSummary (not awaited) and responds.
EndReturns(h, session, heldItems) ==
    IF h.kind = "on"
    THEN /\ inflight' = Continue(h, [h EXCEPT !.pc = "start_insert", !.session = 0])
         /\ out' = [NoOut EXCEPT !.op = "end", !.user = h.user, !.session = session,
                                 !.heldItems = heldItems]
         /\ summarized' = summarized
    ELSE /\ inflight' = Finish(h)
         /\ out' = [Responds("off", h.user, "ended") EXCEPT
                      !.session = session, !.heldItems = heldItems,
                      !.callerItems = heldItems]
         /\ summarized' = Summarize(heldItems)

\* endFocusSession: getActiveFocusSession and `if (!session) return []`
endFocusSession_lookup(h) ==
    /\ Delivered
    /\ h.pc = "end_lookup"
    /\ \E session \in getActiveFocusSession(h.user, now) :
         IF session = 0 THEN EndReturns(h, 0, <<>>)
         ELSE /\ inflight' = Continue(h, [h EXCEPT !.pc = "end_update", !.session = session])
              /\ out' = NoOut
              /\ summarized' = summarized
    /\ UNCHANGED <<focus_sessions, held_items, Others>>

\* endFocusSession: update({ is_active: false }).eq('id', session.id); its error is not read
endFocusSession_update(h) ==
    /\ Delivered
    /\ h.pc = "end_update"
    /\ \/ focus_sessions' = [focus_sessions EXCEPT ![h.session].is_active = FALSE]
       \/ focus_sessions' = focus_sessions
    /\ inflight' = Continue(h, [h EXCEPT !.pc = "end_select"])
    /\ out' = NoOut
    /\ UNCHANGED <<held_items, summarized, Others>>

\* endFocusSession: the select on held_items; `heldItems || []`
endFocusSession_select(h) ==
    /\ Delivered
    /\ h.pc = "end_select"
    /\ \E heldItems \in SelectHeld(h.session) \cup {<<>>} :
         EndReturns(h, h.session, heldItems)
    /\ UNCHANGED <<focus_sessions, held_items, Others>>

\* startFocusSession: the insert, and the rest of handleFocusOn
startFocusSession_insert(h) ==
    /\ Delivered
    /\ h.pc = "start_insert"
    /\ \/ /\ focus_sessions' = Append(focus_sessions,
                 [user_id |-> h.user, started_at |-> h.startedAt,
                  ends_at |-> h.endsAt, is_active |-> TRUE])
          /\ out' = [Responds("on", h.user, "activated") EXCEPT
                       !.created = Len(focus_sessions) + 1]
       \/ /\ focus_sessions' = focus_sessions
          /\ out' = Responds("on", h.user, "start_failed")
    /\ inflight' = Finish(h)
    /\ UNCHANGED <<held_items, summarized, Others>>

-----------------------------------------------------------------------------
(* Message triage                                                          *)

\* holdMessage with urgency and classification_reason filled from each other
holdMessage_swapped(sessionId, m, urgency, reason) ==
    [ session_id |-> sessionId,
      channel_id |-> InboundMessages[m].channel_id,
      channel_name |-> InboundMessages[m].channel_name,
      message |-> m,
      urgency |-> reason,
      classification_reason |-> urgency,
      received_at |-> now ]

\* holdMessage: the row it inserts; received_at is stamped by the store
holdMessage(sessionId, m, urgency, reason) ==
    [ session_id |-> sessionId,
      channel_id |-> InboundMessages[m].channel_id,
      channel_name |-> InboundMessages[m].channel_name,
      message |-> m,
      urgency |-> urgency,
      classification_reason |-> reason,
      received_at |-> now ]

\* logNotification: the row it submits to notification_log
logNotification(userId, m, urgency, wasHeld) ==
    [ submitted |-> TRUE, user_id |-> userId, channel_id |-> InboundMessages[m].channel_id,
      message |-> m, urgency |-> urgency, was_held |-> wasHeld ]

\* classifyMessage over the inbound messages
Classification ==
    [m \in 1..Len(InboundMessages), configured \in BOOLEAN, oracle \in TriageOutcomes |->
        classifyMessage(InboundMessages[m].text, configured, oracle)]

\* An inbound message addressed to userId: look up the active session, classify,
\* and pass the message through (logging it) when it must interrupt.
triage(userId, m) ==
    /\ Accepts
    /\ \E session \in getActiveFocusSession(userId, now), oracle \in TriageOutcomes :
         LET result == Classification[m, api_key, oracle]
         IN  IF session = 0
             THEN /\ inflight' = inflight
                  /\ out' = Responds("message", userId, "not_in_focus")
             ELSE IF result.shouldInterrupt
             THEN /\ inflight' = inflight
                  /\ out' = [Responds("message", userId, "passed") EXCEPT
                               !.session = session, !.msg = m, !.cls = result,
                               !.log = logNotification(userId, m, result.urgency, FALSE)]
             ELSE /\ Len(held_items) + InFlightOf("message") < MaxHeld
                  /\ inflight' = Enter([Handler EXCEPT !.pc = "triage_hold", !.kind = "message",
                                          !.user = userId, !.session = session,
                                          !.msg = m, !.cls = result])
                  /\ out' = NoOut
    /\ UNCHANGED <<focus_sessions, held_items, summarized, Others>>

\* the message is held (the insert may fail, which holdMessage only prints) and logged
triage_hold(h) ==
    /\ Delivered
    /\ h.pc = "triage_hold"
    /\ \E inserted \in BOOLEAN :
         /\ held_items' =
              IF inserted
              THEN Append(held_items, holdMessage(h.session, h.msg, h.cls.urgency, h.cls.reason))
              ELSE held_items
         /\ summarized' = IF inserted THEN Append(summarized, 0) ELSE summarized
         /\ out' = [Responds("message", h.user, "held") EXCEPT
                      !.session = h.session, !.msg = h.msg, !.cls = h.cls,
                      !.heldRow = IF inserted THEN Len(held_items) + 1 ELSE 0,
                      !.log = logNotification(h.user, h.msg, h.cls.urgency, TRUE)]
    /\ inflight' = Finish(h)
    /\ UNCHANGED <<focus_sessions, Others>>

-----------------------------------------------------------------------------

\* the response or return value of the last step reaches its receiver
Deliver ==
    /\ out # NoOut
    /\ out' = NoOut
    /\ UNCHANGED <<now, api_key, focus_sessions, held_items, summarized, inflight, call>>

Tick ==
    /\ Delivered
    /\ now < MaxTicks * TickMs
    /\ now' = now + TickMs
    /\ out' = NoOut
    /\ UNCHANGED <<api_key, focus_sessions, held_items, summarized, inflight, call>>

NoCall == [fn |-> "none"]

Init ==
    /\ now = 0
    /\ api_key \in BOOLEAN
    /\ focus_sessions = <<>>
    /\ held_items = <<>>
    /\ summarized = <<>>
    /\ inflight = EmptyBag
    /\ out = NoOut
    /\ call = NoCall

Next ==
    \/ \E u \in Users, d \in DurationArgs : handleFocusOn(u, d)
    \/ \E u \in Users : handleFocusOff(u)
    \/ \E u \in Users : handleFocusStatus(u)
    \/ \E h \in InFlight : endFocusSession_lookup(h)
    \/ \E h \in InFlight : endFocusSession_update(h)
    \/ \E h \in InFlight : endFocusSession_select(h)
    \/ \E h \in InFlight : startFocusSession_insert(h)
    \/ \E u \in Users, m \in 1..Len(InboundMessages) : triage(u, m)
    \/ \E h \in InFlight : triage_hold(h)
    \/ Deliver
    \/ Tick

Spec == Init /\ [][Next]_vars

-----------------------------------------------------------------------------
(* classifyMessage called once on an input drawn from the sets below       *)

ClassifyTexts ==
    { <<"A","S","A","P">>,
      <<"l","u","n","c","h","?">>,
      <<"d","o","w","n","t","o","w","n">>,
      <<"H","e","l","p"," ","N","o","w">>,
      <<"c","a","l","l"," ","9","1","1">>,
      <<"h","e","l","p"," ","m","e"," ","n","o","w">>,
      <<>> }

\* the texts of ClassifyTexts in which a reader finds one of the nine keywords
KeywordTexts ==
    { <<"A","S","A","P">>,
      <<"d","o","w","n","t","o","w","n">>,
      <<"H","e","l","p"," ","N","o","w">>,
      <<"c","a","l","l"," ","9","1","1">> }

ClassifyInit ==
    /\ now = 0
    /\ api_key = FALSE
    /\ focus_sessions = <<>>
    /\ held_items = <<>>
    /\ summarized = <<>>
    /\ inflight = EmptyBag
    /\ out = NoOut
    /\ call \in [fn : {"classifyMessage"}, messageText : ClassifyTexts, configured : BOOLEAN,
                 oracle : OracleOutcomes, done : {FALSE}, result : {NoResult}]

ClassifyCall ==
    /\ call.fn = "classifyMessage"
    /\ ~call.done
    /\ call' = [call EXCEPT !.done = TRUE,
                            !.result = classifyMessage(call.messageText, call.configured, call.oracle)]
    /\ UNCHANGED <<now, api_key, focus_sessions, held_items, summarized, inflight, out>>

ClassifyNext == ClassifyCall

SpecClassify == ClassifyInit /\ [][ClassifyNext]_vars

Classified == call.fn = "classifyMessage" /\ call.done

OracleFailed == call.configured /\ call.oracle.kind \in OracleFailures

UrgencyLevel == {"low", "medium", "high", "urgent"}

\* C5: every result of classifyMessage, on every path and whatever flag the
\* oracle sent, has shouldInterrupt = TRUE exactly when urgency = urgent.
C5_ShouldInterruptIffUrgent ==
    Classified => (call.result.shouldInterrupt <=> call.result.urgency = "urgent")

\* C5 witness: the oracle answered urgent with shouldInterrupt = false, and the
\* result interrupts
C5_Witness ==
    /\ Classified
    /\ call.configured
    /\ call.oracle = [kind |-> "object", urgency |-> "urgent", shouldInterrupt |-> FALSE]
    /\ call.result.shouldInterrupt

\* C6: the keyword fallback: urgent and interrupting when the text holds a
\* keyword and the oracle is unconfigured or failed; low when no keyword and
\* unconfigured; medium when no keyword and the call failed; never interrupting
\* without a keyword.
C6_KeywordFallback ==
    (Classified /\ (~call.configured \/ OracleFailed)) =>
        IF call.messageText \in KeywordTexts
        THEN call.result.urgency = "urgent" /\ call.result.shouldInterrupt
        ELSE /\ ~call.result.shouldInterrupt
             /\ call.result.urgency = IF call.configured THEN "medium" ELSE "low"

\* C6 witness: "Help Now" (a keyword across a space, in mixed case) with a
\* failed oracle call is urgent
C6_Witness ==
    /\ Classified
    /\ OracleFailed
    /\ call.messageText = <<"H","e","l","p"," ","N","o","w">>
    /\ call.result.urgency = "urgent"

\* C7 as stated: a failing oracle call never raises out of classifyMessage and
\* the verdict is the medium-urgency fallback.
C7_FailureYieldsMedium ==
    (Classified /\ OracleFailed) =>
        (call.result # Thrown /\ call.result.urgency = "medium")

\* C7 amended: a failing oracle call never raises out of classifyMessage; the
\* verdict is the fallback: urgent and interrupting when the text holds a
\* keyword, medium and not interrupting otherwise.
C7_FailureYieldsFallback ==
    (Classified /\ OracleFailed) =>
        /\ call.result # Thrown
        /\ call.result.urgency = IF call.messageText \in KeywordTexts THEN "urgent" ELSE "medium"
        /\ call.result.shouldInterrupt = (call.messageText \in KeywordTexts)

\* C7 witness: JSON null, which raises inside the try block, is answered medium
C7_Witness ==
    /\ Classified
    /\ call.configured
    /\ call.oracle.kind = "json_null"
    /\ call.messageText = <<"l","u","n","c","h","?">>
    /\ call.result.urgency = "medium"

\* C8: the urgency of every classification result is one of low, medium, high,
\* urgent, whatever the oracle returned.
C8_UrgencyInLevels ==
    Classified => call.result.urgency \in UrgencyLevel

-----------------------------------------------------------------------------
(* Focus-session lifecycle and triage                                      *)

\* a handler in flight takes its next step
HandlerStep ==
    \E h \in InFlight :
        \/ endFocusSession_lookup(h)
        \/ endFocusSession_update(h)
        \/ endFocusSession_select(h)
        \/ startFocusSession_insert(h)
        \/ triage_hold(h)

\* `/focus off` of userId finds the session and calls endFocusSession
OffFinds(userId) == handleFocusOff(userId) /\ inflight' # inflight

\* a store call of endFocusSession, made for `/focus off` of userId, succeeds
EndFinds(userId) ==
    \E h \in InFlight :
        h.user = userId /\ h.kind = "off" /\ endFocusSession_lookup(h) /\ out' = NoOut

EndDeactivates(userId) ==
    \E h \in InFlight :
        /\ h.user = userId /\ h.kind = "off"
        /\ endFocusSession_update(h)
        /\ ~focus_sessions'[h.session].is_active

EndSelects(userId) ==
    \E h \in InFlight :
        /\ h.user = userId /\ h.kind = "off"
        /\ endFocusSession_select(h)
        /\ out'.heldItems \in SelectHeld(h.session)

\* the user whose session the liveness specification follows
LiveUsers == {"U1"}

LiveNext ==
    \/ \E u \in LiveUsers, d \in DurationArgs : handleFocusOn(u, d)
    \/ \E u \in LiveUsers : handleFocusOff(u)
    \/ \E u \in LiveUsers : handleFocusStatus(u)
    \/ HandlerStep
    \/ \E u \in LiveUsers, m \in 1..Len(InboundMessages) : triage(u, m)
    \/ Deliver
    \/ Tick

\* Every handler in flight runs to completion, responses are delivered and the
\* clock advances; the user goes on sending `/focus off`, and the store does
\* not go on failing: a call of endFocusSession that can succeed again and
\* again does succeed.
LiveSpec ==
    /\ Init
    /\ [][LiveNext]_vars
    /\ WF_vars(Deliver)
    /\ SF_vars(HandlerStep)
    /\ SF_vars(Tick)
    /\ \A u \in LiveUsers :
         /\ SF_vars(handleFocusOff(u))
         /\ SF_vars(OffFinds(u))
         /\ SF_vars(EndFinds(u))
         /\ SF_vars(EndDeactivates(u))
         /\ SF_vars(EndSelects(u))

\* endFocusSession has just returned, to startFocusSession or to handleFocusOff
EndReturned == out.op = "end" \/ (out.op = "off" /\ out.text = "ended")

\* C1: at every instant a user has at most one focus_sessions row that is
\* active and not yet expired.
C1_AtMostOneActive ==
    \A u \in Users : Cardinality(ActiveRows(u, now)) <= 1

\* C2: when startFocusSession finds and deactivates a prior session, the held
\* items of that session reach the caller of startFocusSession as
\* endFocusSession returned them.
C2_StartReturnsPriorItems ==
    (out.op = "end" /\ out.session # 0 /\ ~focus_sessions[out.session].is_active) =>
        out.callerItems \in SelectHeld(out.session)

\* C3: every held_items row is eventually in a sequence returned by
\* endFocusSession to handleFocusOff, and so handed to sendBatchSummary.
C3_HeldEventuallySummarized ==
    \A i \in 1..MaxHeld :
        (Len(held_items) >= i) ~> (Len(held_items) >= i /\ summarized[i] > 0)

\* the triage pipeline has just finished with a message of a user in focus
Triaged == out.op = "message" /\ out.text \in {"passed", "held"}

C9_EndDeactivatesAndReturnsItems ==
    (EndReturned /\ out.session # 0) =>
        /\ ~focus_sessions[out.session].is_active
        /\ out.heldItems \in SelectHeld(out.session)

\* the user has no focus_sessions row that is active and not yet expired
NoActiveSession(userId) ==
    ~\E i \in 1..Len(focus_sessions) :
        /\ focus_sessions[i].user_id = userId
        /\ focus_sessions[i].is_active
        /\ focus_sessions[i].ends_at > now

\* C10: a step of endFocusSession taken while the user has no active,
\* unexpired session returns the empty sequence and changes no row of
\* focus_sessions or held_items.
C10_EndWithoutSession ==
    [][ \A h \in InFlight :
          ( /\ h.pc = "end_lookup"
            /\ NoActiveSession(h.user)
            /\ CopiesIn(h, inflight') < CopiesIn(h, inflight) )
          => /\ out'.op \in {"end", "off"}
             /\ out'.session = 0
             /\ out'.heldItems = <<>>
             /\ focus_sessions' = focus_sessions
             /\ held_items' = held_items
             /\ summarized' = summarized ]_vars

\* C10 witness: endFocusSession returned empty for a user without a session
\* while another user's session, holding an item, stayed active
C10_Witness ==
    /\ EndReturned
    /\ out.session = 0
    /\ out.heldItems = <<>>
    /\ NoActiveSession(out.user)
    /\ \E s \in SessionIds :
         /\ focus_sessions[s].user_id # out.user
         /\ focus_sessions[s].is_active
         /\ HeldOf(s) # {}

-----------------------------------------------------------------------------
(* getActiveFocusSession and endFocusSession called once on a store drawn  *)
(* from the rows below                                                     *)

MaxRows == 3

HalfTick == TickMs \div 2

QueryTimes == {0, HalfTick, TickMs}

\* focus_sessions rows as startFocusSession writes and endFocusSession updates them
QueryRows ==
    { r \in [user_id : Users, started_at : {0, HalfTick}, ends_at : {HalfTick, TickMs},
             is_active : BOOLEAN] : r.started_at < r.ends_at }

QueryStores == UNION { [1..n -> QueryRows] : n \in 0..MaxRows }

QueryInit ==
    /\ now \in QueryTimes
    /\ api_key = FALSE
    /\ focus_sessions \in QueryStores
    /\ held_items = <<>>
    /\ summarized = <<>>
    /\ inflight = EmptyBag
    /\ out = NoOut
    /\ call = NoCall

\* one call of getActiveFocusSession(userId)
GetActiveCall ==
    /\ call = NoCall
    /\ \E userId \in Users : \E session \in getActiveFocusSession(userId, now) :
         call' = [fn |-> "getActiveFocusSession", userId |-> userId, result |-> session]
    /\ UNCHANGED <<now, api_key, focus_sessions, held_items, summarized, inflight, out>>

QueryNext == GetActiveCall

SpecQuery == QueryInit /\ [][QueryNext]_vars

\* row i is a row of userId with is_active = true and ends_at later than now
Qualifies(i, userId) ==
    /\ focus_sessions[i].user_id = userId
    /\ focus_sessions[i].is_active
    /\ focus_sessions[i].ends_at > now

\* C11: getActiveFocusSession returns none or one row; a returned row is a row
\* of the user that is active and unexpired and no such row of the user
\* started later; with no such row it returns none.
C11_GetActiveMostRecent ==
    call.fn = "getActiveFocusSession" =>
        \/ call.result = 0
        \/ /\ call.result \in 1..Len(focus_sessions)
           /\ Qualifies(call.result, call.userId)
           /\ \A j \in 1..Len(focus_sessions) :
                Qualifies(j, call.userId) =>
                    focus_sessions[j].started_at <= focus_sessions[call.result].started_at

\* C11 witness: the later of two active, unexpired rows of the user was returned
C11_Witness ==
    /\ call.fn = "getActiveFocusSession"
    /\ call.result # 0
    /\ \E j \in 1..Len(focus_sessions) :
         /\ Qualifies(j, call.userId)
         /\ focus_sessions[j].started_at < focus_sessions[call.result].started_at

-----------------------------------------------------------------------------
(* `/focus on` while a session is active                                   *)

\* handler h has just been entered
Entered(h) == CopiesIn(h, inflight') > CopiesIn(h, inflight)

\* C12 as stated: a `/focus on` issued while the user has an active,
\* unexpired session is rejected; it never reaches startFocusSession.
C12_OnWhileActiveRejected ==
    [][ \A h \in BagToSet(inflight') :
          (h.kind = "on" /\ h.pc = "end_lookup" /\ Entered(h)) => NoActiveSession(h.user) ]_vars

\* C12 amended: a `/focus on` whose lookup returns the active session is a
\* no-op: no row of focus_sessions or held_items changes, no call of
\* startFocusSession is made, and the response carries the time remaining to
\* the unchanged end of that session, also while another `on` of the same user
\* is in flight.
C12_RejectedOnIsNoOp ==
    [][ (out'.op = "on" /\ out'.text = "already_active") =>
          /\ focus_sessions' = focus_sessions
          /\ held_items' = held_items
          /\ inflight' = inflight
          /\ out'.session \in 1..Len(focus_sessions)
          /\ Qualifies(out'.session, out'.user)
          /\ out'.remaining = focus_sessions'[out'.session].ends_at - now ]_vars

\* C12 witness: an `on` was rejected for the active session while another `on`
\* of the same user was still in flight
C12_Witness ==
    /\ out.op = "on"
    /\ out.text = "already_active"
    /\ Qualifies(out.session, out.user)
    /\ \E h \in InFlight : h.kind = "on" /\ h.user = out.user

-----------------------------------------------------------------------------
(* `/focus on [duration]` over the duration arguments of DurationCases     *)

OnNext ==
    \/ \E u \in Users, d \in CaseTexts : handleFocusOn(u, d)
    \/ \E h \in InFlight : endFocusSession_lookup(h)
    \/ \E h \in InFlight : endFocusSession_update(h)
    \/ \E h \in InFlight : endFocusSession_select(h)
    \/ \E h \in InFlight : startFocusSession_insert(h)
    \/ Deliver

SpecOn == Init /\ [][OnNext]_vars

\* C13: an `on` whose duration is not a duration, is zero or exceeds 8 hours is
\* answered with a rejection and changes no row and starts nothing; any other
\* `on` that is not rejected for an active session calls startFocusSession
\* with the length of its argument, 2 hours when there is none; and every
\* focus_sessions row lasts more than 0 and at most 8 hours.
C13_DurationPolicy ==
    [][ /\ \A i \in 1..Len(focus_sessions') :
             /\ focus_sessions'[i].ends_at - focus_sessions'[i].started_at > 0
             /\ focus_sessions'[i].ends_at - focus_sessions'[i].started_at <= 8 * 3600000
        /\ \A u \in Users, c \in DurationCases :
             (handleFocusOn(u, c.text) /\ out'.text # "already_active") =>
                 IF c.ms <= 0 \/ c.ms > 8 * 3600000
                 THEN /\ out'.op = "on"
                      /\ out'.text = (IF c.ms <= 0 THEN "invalid_duration" ELSE "too_long")
                      /\ inflight' = inflight
                      /\ focus_sessions' = focus_sessions
                      /\ held_items' = held_items
                 ELSE \E h \in BagToSet(inflight') :
                          /\ Entered(h)
                          /\ h.kind = "on" /\ h.user = u
                          /\ h.endsAt - h.startedAt = c.ms ]_vars

\* C13 witness: an `on` was refused as too long while sessions of 8 hours and
\* of 7 minutes exist
C13_Witness ==
    /\ out.op = "on"
    /\ out.text = "too_long"
    /\ \E i, j \in 1..Len(focus_sessions) :
         /\ focus_sessions[i].ends_at - focus_sessions[i].started_at = 8 * 3600000
         /\ focus_sessions[j].ends_at - focus_sessions[j].started_at = 420000

-----------------------------------------------------------------------------
(* POST called once on a request drawn from the sets below                 *)

\* .digest('hex') of the HMAC-SHA256 of the base string: 64 hex characters,
\* here those of the one body the requests carry
Digest == [i \in 1..64 |-> IF i % 2 = 0 THEN "a" ELSE "7"]

mySignature == <<"v", "0", "=">> \o Digest

\* Math.floor(Date.now() / 1000)
currentTime == 1000

\* x-slack-signature; <<>> is the absent header (`|| ''`)
Signatures ==
    { mySignature,
      [mySignature EXCEPT ![67] = "b"],
      <<"v", "0", "=">>,
      <<>> }

\* x-slack-request-timestamp; <<>> is the absent header
Timestamps == { <<"1","0","0","0">>, <<"7","0","0">>, <<"6","9","9">>, <<>> }

\* text.split(/\s+/): the subcommand and args[0]
CommandTexts ==
    { [subcommand |-> <<"o","n">>,                 arg |-> <<"3","0","m">>],
      [subcommand |-> <<"O","N">>,                 arg |-> <<>>],
      [subcommand |-> <<"o","f","f">>,             arg |-> <<>>],
      [subcommand |-> <<"s","t","a","t","u","s">>, arg |-> <<>>],
      [subcommand |-> <<"h","e","l","p">>,         arg |-> <<>>],
      [subcommand |-> <<>>,                        arg |-> <<>>],
      [subcommand |-> <<"0","7","m">>,             arg |-> <<>>],
      [subcommand |-> <<"0","h","0","m">>,         arg |-> <<>>],
      [subcommand |-> <<"s","o","o","n">>,         arg |-> <<>>] }

\* parseInt never yields a negative number here: -1 stands for NaN
NaN == 0 - 1

\* parseInt(timestamp): the leading decimal digits, NaN without any
parseIntPrefix(s) ==
    LET k == CHOOSE n \in 0..Len(s) :
                 /\ \A i \in 1..n : IsDigit(s[i])
                 /\ n = Len(s) \/ ~IsDigit(s[n + 1])
    IN  IF k = 0 THEN NaN ELSE parseInt(SubSeq(s, 1, k))

Abs(n) == IF n < 0 THEN 0 - n ELSE n

RangeError == "RangeError"

\* crypto.timingSafeEqual: a RangeError when the byte lengths differ
timingSafeEqual(a, b) ==
    IF Len(a) # Len(b) THEN RangeError ELSE IF a = b THEN "true" ELSE "false"

verifySlackRequest(signature, timestamp) ==
    IF parseIntPrefix(timestamp) # NaN /\ Abs(currentTime - parseIntPrefix(timestamp)) > 300
    THEN "false"
    ELSE timingSafeEqual(mySignature, signature)

PostResponse(kind, duration) == [kind |-> kind, duration |-> duration]

\* an exception leaves POST: the request ends without a response
PostThrown == PostResponse("<thrown>", <<>>)

\* the switch on subcommand.toLowerCase(); a handler that raises lands in the catch block
Dispatch(text, handlerThrows) ==
    LET sub == toLowerCase(text.subcommand)
        handled(kind, duration) ==
            IF handlerThrows THEN PostResponse("something_went_wrong", <<>>)
            ELSE PostResponse(kind, duration)
    IN  IF sub = <<"o","n">> THEN handled("on", text.arg)
        ELSE IF sub = <<"o","f","f">> THEN handled("off", <<>>)
        ELSE IF sub = <<"s","t","a","t","u","s">> THEN handled("status", <<>>)
        ELSE IF sub = <<>> \/ sub = <<"h","e","l","p">> THEN PostResponse("help", <<>>)
        ELSE IF parseDuration(text.subcommand).matched /\ parseDuration(text.subcommand).ms # 0
        THEN handled("on", text.subcommand)
        ELSE PostResponse("help", <<>>)

\* POST: what the request ends with
POST(request) ==
    IF verifySlackRequest(request.signature, request.timestamp) = RangeError THEN PostThrown
    ELSE IF verifySlackRequest(request.signature, request.timestamp) = "false"
    THEN PostResponse("invalid_signature_401", <<>>)
    ELSE IF ~request.isFocus THEN PostResponse("unknown_command_400", <<>>)
    ELSE Dispatch(request.text, request.handlerThrows)

Requests ==
    [ signature : Signatures, timestamp : Timestamps,
      isFocus : BOOLEAN, text : CommandTexts, handlerThrows : BOOLEAN ]

PostInit ==
    /\ now = 0
    /\ api_key = FALSE
    /\ focus_sessions = <<>>
    /\ held_items = <<>>
    /\ summarized = <<>>
    /\ inflight = EmptyBag
    /\ out = NoOut
    /\ call \in [fn : {"POST"}, request : Requests, done : {FALSE},
                 result : {PostResponse("none", <<>>)}]

PostCall ==
    /\ call.fn = "POST"
    /\ ~call.done
    /\ call' = [call EXCEPT !.done = TRUE, !.result = POST(call.request)]
    /\ UNCHANGED <<now, api_key, focus_sessions, held_items, summarized, inflight, out>>

PostNext == PostCall

SpecPost == PostInit /\ [][PostNext]_vars

\* C14: every slash-command request ends with a response, whatever raises
\* while it is handled.
C14_AlwaysResponds ==
    (call.fn = "POST" /\ call.done) => call.result # PostThrown

-----------------------------------------------------------------------------
(* parseDuration and formatDuration called on the strings below            *)

\* `${n}` of a natural number
RECURSIVE Dec(_)
Dec(n) == IF n < 10 THEN <<DigitChars[n + 1]>> ELSE Dec(n \div 10) \o <<DigitChars[(n % 10) + 1]>>

\* formatDuration printing the total minutes beside the hours
formatDuration_totalMinutes(ms) ==
    LET minutes == ms \div 60000
        hours == minutes \div 60
        remainingMinutes == minutes % 60
    IN  IF hours > 0 /\ remainingMinutes > 0
        THEN Dec(hours) \o <<"h", " ">> \o Dec(minutes) \o <<"m">>
        ELSE IF hours > 0 THEN Dec(hours) \o <<"h">>
        ELSE Dec(minutes) \o <<"m">>

formatDuration(ms) ==
    LET minutes == ms \div 60000
        hours == minutes \div 60
        remainingMinutes == minutes % 60
    IN  IF hours > 0 /\ remainingMinutes > 0
        THEN Dec(hours) \o <<"h", " ">> \o Dec(remainingMinutes) \o <<"m">>
        ELSE IF hours > 0 THEN Dec(hours) \o <<"h">>
        ELSE Dec(minutes) \o <<"m">>

MaxHourPart == 12

MaxMinutePart == 75

\* {h}h{m}m with either part optional, written with or without a leading
\* zero and in either case
WellFormed ==
    { [ h |-> IF hp THEN h ELSE 0,
        m |-> IF mp THEN m ELSE 0,
        wellFormed |-> TRUE,
        text |-> (IF hp THEN pad \o Dec(h) \o <<units[1]>> ELSE <<>>)
                 \o (IF mp THEN pad \o Dec(m) \o <<units[2]>> ELSE <<>>) ] :
        h \in 0..MaxHourPart, m \in 0..MaxMinutePart,
        hp \in BOOLEAN, mp \in {TRUE},
        pad \in {<<>>, <<"0">>}, units \in {<<"h", "m">>, <<"H", "M">>} }
    \cup
    { [ h |-> h, m |-> 0, wellFormed |-> TRUE, text |-> pad \o Dec(h) \o <<unit>> ] :
        h \in 0..MaxHourPart, pad \in {<<>>, <<"0">>}, unit \in {"h", "H"} }

\* empty, neither part, or an extraneous character
Malformed ==
    { [ h |-> 0, m |-> 0, wellFormed |-> FALSE, text |-> s ] :
        s \in { <<>>, <<"h">>, <<"m">>, <<"h","m">>, <<"2">>, <<"2","h"," ">>, <<" ","2","h">>,
                <<"2"," ","h">>, <<"1","h"," ","3","0","m">>, <<"3","0","m","1","h">>,
                <<"1",".","5","h">>, <<"-","1","h">>, <<"2","h","r">>, <<"2","h","3","0">>,
                <<"1","h","2","h">>, <<"5","m","5","m">>, <<"s","o","o","n">> } }

DurationInit ==
    /\ now = 0
    /\ api_key = FALSE
    /\ focus_sessions = <<>>
    /\ held_items = <<>>
    /\ summarized = <<>>
    /\ inflight = EmptyBag
    /\ out = NoOut
    /\ \E c \in WellFormed \cup Malformed :
         call = [fn |-> "parseDuration", input |-> c, done |-> FALSE,
                 result |-> NoMatch, formatted |-> <<>>]

\* parseDuration(text), and formatDuration of its value when it is a number
DurationCall ==
    /\ call.fn = "parseDuration"
    /\ ~call.done
    /\ call' = [call EXCEPT
                  !.done = TRUE,
                  !.result = parseDuration(call.input.text),
                  !.formatted = IF parseDuration(call.input.text).matched
                                THEN formatDuration(parseDuration(call.input.text).ms)
                                ELSE <<>>]
    /\ UNCHANGED <<now, api_key, focus_sessions, held_items, summarized, inflight, out>>

DurationNext == DurationCall

SpecDuration == DurationInit /\ [][DurationNext]_vars

NoSpaces(s) == SelectSeq(s, LAMBDA c : c # " ")

\* C15: a well-formed {h}h{m}m parses to (h*60+m)*60000 ms, and formatting
\* that value gives the normalized rendering of the same total minutes, which
\* parses (its space removed) to the same value; a malformed string is no match.
C15_ParseFormat ==
    (call.fn = "parseDuration" /\ call.done) =>
        IF call.input.wellFormed
        THEN LET total == call.input.h * 60 + call.input.m
                 H == total \div 60
                 M == total % 60
             IN  /\ call.result.matched
                 /\ call.result.ms = total * 60000
                 /\ call.formatted =
                      (IF H > 0 /\ M > 0 THEN Dec(H) \o <<"h", " ">> \o Dec(M) \o <<"m">>
                       ELSE IF H > 0 THEN Dec(H) \o <<"h">>
                       ELSE Dec(M) \o <<"m">>)
                 /\ M < 60
                 /\ parseDuration(NoSpaces(call.formatted)).ms = call.result.ms
        ELSE ~call.result.matched

\* C15 witness: 1h75m was parsed and rendered as 2h 15m
C15_Witness ==
    /\ call.fn = "parseDuration"
    /\ call.done
    /\ call.input.text = <<"1", "h", "7", "5", "m">>
    /\ call.result.ms = 8100000
    /\ call.formatted = <<"2", "h", " ", "1", "5", "m">>

-----------------------------------------------------------------------------
(* sendBatchSummary called once on a sequence of held items                *)

MaxItems == 6

\* channel_name (<<>> when absent) and channel_id of a held item
ItemChannels ==
    { [channel_name |-> <<"g","e","n","e","r","a","l">>, channel_id |-> <<"C","1">>],
      [channel_name |-> <<"2","0","2","4">>, channel_id |-> <<"C","2">>],
      [channel_name |-> <<"7">>, channel_id |-> <<"C","3">>],
      [channel_name |-> <<"c","o","n","s","t","r","u","c","t","o","r">>, channel_id |-> <<"C","4">>],
      [channel_name |-> <<>>, channel_id |-> <<"C","5">>] }

HeldSequences == UNION { [1..n -> ItemChannels] : n \in 0..MaxItems }

\* names every object inherits from Object.prototype
PrototypeKeys ==
    { <<"c","o","n","s","t","r","u","c","t","o","r">>, <<"_","_","p","r","o","t","o","_","_">>, <<"h","a","s","O","w","n","P","r","o","p","e","r","t","y">>,
      <<"t","o","S","t","r","i","n","g">>, <<"v","a","l","u","e","O","f">> }

\* const key = item.channel_name || item.channel_id
ChannelKey(item) == IF item.channel_name # <<>> THEN item.channel_name ELSE item.channel_id

Range(s) == { s[i] : i \in 1..Len(s) }

\* the own keys of byChannel in the order the loop created them
RECURSIVE InsertionKeys(_)
InsertionKeys(items) ==
    IF items = <<>> THEN <<>>
    ELSE LET prev == InsertionKeys(SubSeq(items, 1, Len(items) - 1))
             key == ChannelKey(items[Len(items)])
         IN  IF key \in Range(prev) THEN prev ELSE Append(prev, key)

\* byChannel[key] is found on the prototype, is truthy and has no push
GroupingThrows(items) == \E i \in 1..Len(items) : ChannelKey(items[i]) \in PrototypeKeys

\* a canonical array index: such keys come first in Object.entries, ascending
IsArrayIndex(key) ==
    /\ AllDigits(key)
    /\ Len(key) = 1 \/ key[1] # "0"
    /\ Len(key) <= 9

\* Object.entries(byChannel): the keys in the order it enumerates them
EntriesOrder(items) ==
    LET keys == InsertionKeys(items)
        idx == { k \in Range(keys) : IsArrayIndex(k) }
        sorted == CHOOSE s \in [1..Cardinality(idx) -> idx] :
                      \A i, j \in 1..Cardinality(idx) : i < j => parseInt(s[i]) < parseInt(s[j])
    IN  sorted \o SelectSeq(keys, LAMBDA k : ~IsArrayIndex(k))

Line(kind, key, n, item) == [kind |-> kind, key |-> key, n |-> n, item |-> item]

\* byChannel[key]: the positions in heldItems of the items pushed under key
RECURSIVE GroupOf(_, _, _)
GroupOf(items, key, from) ==
    IF from > Len(items) THEN <<>>
    ELSE IF ChannelKey(items[from]) = key THEN <<from>> \o GroupOf(items, key, from + 1)
    ELSE GroupOf(items, key, from + 1)

Min(a, b) == IF a < b THEN a ELSE b

\* the lines pushed for one entry of byChannel
GroupLines(key, group) ==
    <<Line("channel", key, Len(group), 0)>>
    \o [i \in 1..Min(Len(group), 5) |-> Line("item", key, 0, group[i])]
    \o (IF Len(group) > 5 THEN <<Line("more", key, Len(group) - 5, 0)>> ELSE <<>>)
    \o <<Line("blank", <<>>, 0, 0)>>

RECURSIVE EntryLines(_, _)
EntryLines(items, entries) ==
    IF entries = <<>> THEN <<>>
    ELSE GroupLines(entries[1], GroupOf(items, entries[1], 1)) \o EntryLines(items, Tail(entries))

NoMessages == <<Line("no_messages", <<>>, 0, 0)>>

SummaryThrown == <<Line("<thrown>", <<>>, 0, 0)>>

\* sendBatchSummary: the lines of the DM it sends, SummaryThrown when it raises
sendBatchSummary(heldItems) ==
    IF Len(heldItems) = 0 THEN NoMessages
    ELSE IF GroupingThrows(heldItems) THEN SummaryThrown
    ELSE <<Line("title", <<>>, 0, 0), Line("blank", <<>>, 0, 0),
           Line("held", <<>>, Len(heldItems), 0), Line("blank", <<>>, 0, 0)>>
         \o EntryLines(heldItems, EntriesOrder(heldItems))

SummaryInit ==
    /\ now = 0
    /\ api_key = FALSE
    /\ focus_sessions = <<>>
    /\ held_items = <<>>
    /\ summarized = <<>>
    /\ inflight = EmptyBag
    /\ out = NoOut
    /\ \E items \in HeldSequences :
         call = [fn |-> "sendBatchSummary", heldItems |-> items, done |-> FALSE, lines |-> <<>>]

SummaryCall ==
    /\ call.fn = "sendBatchSummary"
    /\ ~call.done
    /\ call' = [call EXCEPT !.done = TRUE, !.lines = sendBatchSummary(call.heldItems)]
    /\ UNCHANGED <<now, api_key, focus_sessions, held_items, summarized, inflight, out>>

SummaryNext == SummaryCall

SpecSummary == SummaryInit /\ [][SummaryNext]_vars

Summarized == call.fn = "sendBatchSummary" /\ call.done

\* the channel keys of the input, and the number of items under a key
KeysOf(items) == { ChannelKey(items[i]) : i \in 1..Len(items) }

CountOf(items, key) == Cardinality({ i \in 1..Len(items) : ChannelKey(items[i]) = key })

\* positions of the lines of a kind
LinesOf(lines, kind) == { p \in 1..Len(lines) : lines[p].kind = kind }

\* C16: the summary of a non-empty sequence states the total in its header
\* and has, for each channel group of n items, one channel line followed by
\* exactly min(n, 5) item lines, then an `...and (n-5) more` line exactly when
\* n > 5; the empty sequence gets the fixed no-messages text.
C16_SummaryCounts ==
    Summarized =>
        LET items == call.heldItems
            lines == call.lines
        IN  IF items = <<>> THEN lines = NoMessages
            ELSE /\ \E p \in LinesOf(lines, "held") : lines[p].n = Len(items)
                 /\ \A key \in KeysOf(items) :
                      LET n == CountOf(items, key)
                          shown == IF n < 5 THEN n ELSE 5
                      IN  \E p \in LinesOf(lines, "channel") :
                            /\ lines[p].key = key
                            /\ lines[p].n = n
                            /\ \A q \in LinesOf(lines, "channel") : lines[q].key = key => q = p
                            /\ \A d \in 1..shown : lines[p + d].kind = "item"
                            /\ lines[p + shown + 1].kind = (IF n > 5 THEN "more" ELSE "blank")
                            /\ n > 5 => lines[p + shown + 1].n = n - 5
                            /\ Cardinality({ q \in LinesOf(lines, "item") : lines[q].key = key }) = shown

\* the keys of the channel lines, top to bottom
ChannelOrder(lines) == [i \in 1..Len(SelectSeq(lines, LAMBDA l : l.kind = "channel")) |->
                           SelectSeq(lines, LAMBDA l : l.kind = "channel")[i].key]

\* C20: in a summary that was composed, the channel groups stand in the order
\* in which their keys (channel name, else channel id) first appear in the
\* input, and the item lines of a group are items of that channel in input
\* order.
C20_FirstSeenOrder ==
    (Summarized /\ call.heldItems # <<>> /\ call.lines # SummaryThrown) =>
        LET items == call.heldItems
            lines == call.lines
        IN  /\ ChannelOrder(lines) = InsertionKeys(items)
            /\ \A p \in LinesOf(lines, "item") : ChannelKey(items[lines[p].item]) = lines[p].key
            /\ \A p, q \in LinesOf(lines, "item") :
                 (p < q /\ lines[p].key = lines[q].key) => lines[p].item < lines[q].item

-----------------------------------------------------------------------------
(* Triage against end, repeated end, and expiry                            *)

\* C17: a held_items row is inserted only for a session that is active and
\* unexpired at the moment of the insert.
C17_HeldIntoActiveSession ==
    [][ Len(held_items') > Len(held_items) =>
          LET row == held_items'[Len(held_items')]
          IN  /\ focus_sessions[row.session_id].is_active
              /\ focus_sessions[row.session_id].ends_at > now ]_vars

\* C18: no held item is handed to sendBatchSummary by more than one call of
\* endFocusSession.
C18_ReturnedAtMostOnce ==
    \A i \in 1..Len(summarized) : summarized[i] <= 1

\* row i is active and the clock has reached its ends_at
Expired(i) == focus_sessions[i].is_active /\ focus_sessions[i].ends_at <= now

\* C19: a lookup of the active session never yields a row whose ends_at
\* the clock has reached (status, `on`, `off`, endFocusSession and triage see
\* no session), the passage of time writes nothing, and an expired row is
\* deactivated only by an endFocusSession that found it before it expired.
C19_ExpiryIsReadTime ==
    [][ /\ now' # now => focus_sessions' = focus_sessions
        /\ (out'.op \in {"status", "on"} /\ out'.session # 0) => ~Expired(out'.session)
        /\ (out'.op = "message" /\ out'.text = "passed") => ~Expired(out'.session)
        /\ \A h \in BagToSet(inflight') :
             (Entered(h) /\ h.pc \in {"end_update", "triage_hold"}) => ~Expired(h.session)
        /\ \A u \in Users :
             (\A i \in 1..Len(focus_sessions) :
                  focus_sessions[i].user_id = u /\ focus_sessions[i].is_active => Expired(i))
             => /\ \A h \in BagToSet(inflight') :
                     (Entered(h) /\ h.user = u) => h.pc \notin {"end_update", "triage_hold"}
                /\ (out'.user = u /\ out'.op \in {"status", "off", "message"})
                     => out'.text \in {"no_session", "not_in_focus", "ended", "held"}
        /\ \A i \in 1..Len(focus_sessions) :
             (Expired(i) /\ ~focus_sessions'[i].is_active) =>
                 \E h \in InFlight : h.pc = "end_update" /\ h.session = i ]_vars

\* C19 witness: endFocusSession returned empty, and `/focus off` found no
\* session, for a user whose only session row is still flagged active but expired
C19_Witness ==
    /\ out.op \in {"end", "off"}
    /\ out.session = 0
    /\ out.heldItems = <<>>
    /\ \E i \in 1..Len(focus_sessions) : focus_sessions[i].user_id = out.user /\ Expired(i)
    /\ \A i \in 1..Len(focus_sessions) : focus_sessions[i].user_id = out.user => Expired(i)

=============================================================================
